---- MODULE Spec2Model ----
(***************************************************************************)
(* A model of raysect.core.workflow: the RenderEngine workflow with its    *)
(* two backends, SerialEngine and MulticoreEngine, driven by a Job as in   *)
(* the module's own demonstration (a serial baseline run, then a           *)
(* MulticoreEngine run over the same tasks); and of the two readers of the  *)
(* ASCII mesh loader of raysect.primitive.mesh.vtk.                         *)
(*                                                                         *)
(* Python values are records [tag, v]: None is PyNone, the integer n is    *)
(* PyInt(n) and the float n/2 is PyHalf(n).                                *)
(***************************************************************************)
EXTENDS Integers, Sequences, FiniteSets, TLC

\* Bounds of the model.
MaxTasks == 2
MaxWorkers == 2

VARIABLES
    host_cpus,      \* what cpu_count() returns on this host
    tasks,          \* the list of tasks handed to run()
    faulty,         \* the task values on which the caller's render raises
    processes,      \* MulticoreEngine._processes
    last_call,      \* the last call made on the engine and how it ended
    pc,             \* where the caller is
    k,              \* the caller's loop counter
    result,         \* the caller's local variable result
    serial_job,     \* state of the Job run through SerialEngine
    job,            \* state of the Job run through MulticoreEngine
    task_queue,     \* run()'s task_queue
    result_queue,   \* run()'s result_queue
    producer,       \* the producer process
    workers,        \* run()'s list workers, one record per started process
    vtk             \* the mesh loader: the open file f and the reader's locals

vars == <<host_cpus, tasks, faulty, processes, last_call, pc, k, result,
          serial_job, job, task_queue, result_queue, producer, workers, vtk>>

----------------------------------------------------------------------------
\* Python values

PyNone == [tag |-> "None", v |-> 0]
PyInt(n) == [tag |-> "int", v |-> n]
PyHalf(n) == [tag |-> "float", v |-> n]

\* int(value): an int is itself, a float is truncated towards zero.
IntOf(value) ==
    IF value.tag = "float"
    THEN IF value.v >= 0 THEN value.v \div 2 ELSE -((-value.v) \div 2)
    ELSE value.v

\* The task values of the bounded runs: 0, which is falsy and its own square,
\* and 2, which is neither. A task list may repeat a value.
TaskValues == {PyInt(0), PyInt(2)}

SeqsUpTo(S, n) == UNION {[1..m -> S] : m \in 0..n}

\* The values a caller may assign to MulticoreEngine.processes.
ProcessesArgs ==
    {PyNone} \cup {PyInt(n) : n \in (-1)..MaxWorkers} \cup {PyHalf(n) : n \in {-1, 1, 3}}

----------------------------------------------------------------------------
\* The caller's callbacks

\* render(task): the square of the task.
render(task) == PyInt(task.v * task.v)

NewJob == [total |-> 0, log |-> <<>>]

\* update(result): Job.update adds the result to the running total; the log
\* keeps the results in the order update received them.
update(j, r) == [total |-> j.total + r.v, log |-> Append(j.log, r)]

----------------------------------------------------------------------------
\* MulticoreEngine.processes

\* The setter stores the value before it validates it.
processes_setter_StoreFirst(current, value, cpus) ==
    IF value = PyNone
    THEN [processes |-> cpus, raised |-> "none"]
    ELSE IF IntOf(value) <= 0
         THEN [processes |-> IntOf(value), raised |-> "ValueError"]
         ELSE [processes |-> IntOf(value), raised |-> "none"]

\* The setter: what _processes holds afterwards and what was raised.
processes_setter(current, value, cpus) ==
    IF value = PyNone
    THEN [processes |-> cpus, raised |-> "none"]
    ELSE IF IntOf(value) <= 0
         THEN [processes |-> current, raised |-> "ValueError"]
         ELSE [processes |-> IntOf(value), raised |-> "none"]

\* worker_count() answers with the host's processor count, not the configured one.
worker_count_Stale == host_cpus

worker_count == processes

\* SerialEngine.worker_count()
serial_worker_count == 1

\* What a virtual method of the RenderEngine base raises.
virtual_method_Silent == "none"

virtual_method == "NotImplementedError"

NoProducer == [pc |-> "unstarted", i |-> 0]

\* No mesh file is being loaded.
NoFile == [lines |-> <<>>, pos |-> 0, pc |-> "closed", num |-> 0, i |-> 0,
           raised |-> "none"]

\* MulticoreEngine.__init__ with a valid argument, and the rest of the program
\* before anything has run.
InitEngine ==
    /\ host_cpus \in 1..MaxWorkers
    /\ \E value \in ProcessesArgs :
         /\ processes_setter(-1, value, host_cpus).raised = "none"
         /\ processes = processes_setter(-1, value, host_cpus).processes
    /\ last_call = [op |-> "init", arg |-> PyNone, raised |-> "none"]
    /\ k = 0
    /\ result = PyNone
    /\ serial_job = NewJob
    /\ job = NewJob
    /\ task_queue = <<>>
    /\ result_queue = <<>>
    /\ producer = NoProducer
    /\ workers = <<>>
    /\ vtk = NoFile

Init ==
    /\ InitEngine
    /\ tasks \in SeqsUpTo(TaskValues, MaxTasks)
    /\ faulty = {}
    /\ pc = IF Len(tasks) > 0 THEN "serial_render" ELSE "configure"

----------------------------------------------------------------------------
\* SerialEngine.run

\* The serial loop walks the tasks from the last to the first.
SerialRender_Reversed ==
    /\ pc = "serial_render"
    /\ tasks[Len(tasks) - k] \notin faulty
    /\ result' = render(tasks[Len(tasks) - k])
    /\ pc' = "serial_update"
    /\ UNCHANGED <<vtk, host_cpus, tasks, faulty, processes, last_call, k, serial_job,
                   job, task_queue, result_queue, producer, workers>>

SerialRender ==
    /\ pc = "serial_render"
    /\ tasks[k + 1] \notin faulty
    /\ result' = render(tasks[k + 1])
    /\ pc' = "serial_update"
    /\ UNCHANGED <<vtk, host_cpus, tasks, faulty, processes, last_call, k, serial_job,
                   job, task_queue, result_queue, producer, workers>>

SerialUpdate ==
    /\ pc = "serial_update"
    /\ serial_job' = update(serial_job, result)
    /\ result' = PyNone
    /\ k' = IF k + 1 < Len(tasks) THEN k + 1 ELSE 0
    /\ pc' = IF k + 1 < Len(tasks) THEN "serial_render" ELSE "configure"
    /\ UNCHANGED <<vtk, host_cpus, tasks, faulty, processes, last_call, job,
                   task_queue, result_queue, producer, workers>>

----------------------------------------------------------------------------
\* MulticoreEngine: configuration

SetProcesses(value) ==
    /\ pc = "configure"
    /\ processes' = processes_setter(processes, value, host_cpus).processes
    /\ last_call' = [op |-> "set", arg |-> value,
                     raised |-> processes_setter(processes, value, host_cpus).raised]
    /\ UNCHANGED <<vtk, host_cpus, tasks, faulty, pc, k, result, serial_job, job,
                   task_queue, result_queue, producer, workers>>

----------------------------------------------------------------------------
\* MulticoreEngine.run, on the caller's process

\* Where the caller goes after n rounds of a loop of run(), with `started`
\* workers in the list workers.
\* The shutdown loop pushes one signal too few.
AfterShutdown_OneShort(n, started) == IF n + 1 < started THEN "shutdown" ELSE "returned"

AfterShutdown(n, started) == IF n < started THEN "shutdown" ELSE "returned"
\* The consumer loop leaves one result behind.
AfterConsume_OneShort(n, started) ==
    IF n + 1 < Len(tasks) THEN "consume_get" ELSE AfterShutdown(0, started)

AfterConsume(n, started) ==
    IF n < Len(tasks) THEN "consume_get" ELSE AfterShutdown(0, started)
\* run() shuts the workers down without consuming the results first.
AfterSpawn_NoConsume(started) ==
    IF started < processes THEN "start_workers" ELSE AfterShutdown(0, started)

AfterSpawn(started) ==
    IF started < processes THEN "start_workers" ELSE AfterConsume(0, started)

RunStart ==
    /\ pc = "configure"
    /\ task_queue' = <<>>
    /\ result_queue' = <<>>
    /\ job' = NewJob
    /\ last_call' = [op |-> "run", arg |-> PyNone, raised |-> "none"]
    /\ pc' = "start_producer"
    /\ UNCHANGED <<vtk, host_cpus, tasks, faulty, processes, k, result, serial_job,
                   producer, workers>>

StartProducer ==
    /\ pc = "start_producer"
    /\ producer' = [pc |-> "put", i |-> 0]
    /\ pc' = AfterSpawn(0)
    /\ UNCHANGED <<vtk, host_cpus, tasks, faulty, processes, last_call, k, result,
                   serial_job, job, task_queue, result_queue, workers>>

\* The worker goes straight to its loop: random.seed() is missing.
StartWorker_Unseeded ==
    /\ pc = "start_workers"
    /\ workers' = Append(workers, [pc |-> "get", rng |-> "inherited", item |-> PyNone])
    /\ pc' = AfterSpawn(Len(workers) + 1)
    /\ UNCHANGED <<vtk, host_cpus, tasks, faulty, processes, last_call, k, result,
                   serial_job, job, task_queue, result_queue, producer>>

StartWorker ==
    /\ pc = "start_workers"
    /\ workers' = Append(workers, [pc |-> "seed", rng |-> "inherited", item |-> PyNone])
    /\ pc' = AfterSpawn(Len(workers) + 1)
    /\ UNCHANGED <<vtk, host_cpus, tasks, faulty, processes, last_call, k, result,
                   serial_job, job, task_queue, result_queue, producer>>

\* The caller takes the newest result of the queue instead of the oldest.
ConsumeGet_Newest ==
    /\ pc = "consume_get"
    /\ result_queue /= <<>>
    /\ result' = result_queue[Len(result_queue)]
    /\ result_queue' = SubSeq(result_queue, 1, Len(result_queue) - 1)
    /\ pc' = "consume_update"
    /\ UNCHANGED <<vtk, host_cpus, tasks, faulty, processes, last_call, k, serial_job,
                   job, task_queue, producer, workers>>

\* result = result_queue.get(): blocks while the queue is empty.
ConsumeGet ==
    /\ pc = "consume_get"
    /\ result_queue /= <<>>
    /\ result' = Head(result_queue)
    /\ result_queue' = Tail(result_queue)
    /\ pc' = "consume_update"
    /\ UNCHANGED <<vtk, host_cpus, tasks, faulty, processes, last_call, k, serial_job,
                   job, task_queue, producer, workers>>

ConsumeUpdate ==
    /\ pc = "consume_update"
    /\ job' = update(job, result)
    /\ result' = PyNone
    /\ k' = IF AfterConsume(k + 1, Len(workers)) = "consume_get" THEN k + 1 ELSE 0
    /\ pc' = AfterConsume(k + 1, Len(workers))
    /\ UNCHANGED <<vtk, host_cpus, tasks, faulty, processes, last_call, serial_job,
                   task_queue, result_queue, producer, workers>>

\* task_queue.put(None), once per element of workers.
ShutdownWorker ==
    /\ pc = "shutdown"
    /\ task_queue' = Append(task_queue, PyNone)
    /\ k' = IF AfterShutdown(k + 1, Len(workers)) = "shutdown" THEN k + 1 ELSE 0
    /\ pc' = AfterShutdown(k + 1, Len(workers))
    /\ UNCHANGED <<vtk, host_cpus, tasks, faulty, processes, last_call, result,
                   serial_job, job, result_queue, producer, workers>>

----------------------------------------------------------------------------
\* MulticoreEngine._producer, on the producer process

\* The producer walks the tasks from the last to the first.
ProducerPut_Reversed ==
    /\ producer.pc = "put"
    /\ producer.i < Len(tasks)
    /\ task_queue' = Append(task_queue, tasks[Len(tasks) - producer.i])
    /\ producer' = [producer EXCEPT !.i = @ + 1]
    /\ UNCHANGED <<vtk, host_cpus, tasks, faulty, processes, last_call, pc, k, result,
                   serial_job, job, result_queue, workers>>

ProducerPut ==
    /\ producer.pc = "put"
    /\ producer.i < Len(tasks)
    /\ task_queue' = Append(task_queue, tasks[producer.i + 1])
    /\ producer' = [producer EXCEPT !.i = @ + 1]
    /\ UNCHANGED <<vtk, host_cpus, tasks, faulty, processes, last_call, pc, k, result,
                   serial_job, job, result_queue, workers>>

ProducerExit ==
    /\ producer.pc = "put"
    /\ producer.i = Len(tasks)
    /\ producer' = [producer EXCEPT !.pc = "exited"]
    /\ UNCHANGED <<vtk, host_cpus, tasks, faulty, processes, last_call, pc, k, result,
                   serial_job, job, task_queue, result_queue, workers>>

----------------------------------------------------------------------------
\* MulticoreEngine._worker, on worker process w

\* random.seed()
WorkerSeed(w) ==
    /\ workers[w].pc = "seed"
    /\ workers' = [workers EXCEPT ![w].pc = "get", ![w].rng = "reseeded"]
    /\ UNCHANGED <<vtk, host_cpus, tasks, faulty, processes, last_call, pc, k, result,
                   serial_job, job, task_queue, result_queue, producer>>

\* "have we been commanded to shutdown?"
is_shutdown(task) == task = PyNone

\* task = task_queue.get(), which blocks while the queue is empty, and the
\* test that leaves the loop.
WorkerGet(w) ==
    /\ workers[w].pc = "get"
    /\ task_queue /= <<>>
    /\ task_queue' = Tail(task_queue)
    /\ workers' = IF is_shutdown(Head(task_queue))
                  THEN [workers EXCEPT ![w].pc = "exited"]
                  ELSE [workers EXCEPT ![w].pc = "render", ![w].item = Head(task_queue)]
    /\ UNCHANGED <<vtk, host_cpus, tasks, faulty, processes, last_call, pc, k, result,
                   serial_job, job, result_queue, producer>>

\* The worker forwards the task instead of rendering it.
WorkerRender_Skipped(w) ==
    /\ workers[w].pc = "render"
    /\ workers[w].item \notin faulty
    /\ workers' = [workers EXCEPT ![w].pc = "put"]
    /\ UNCHANGED <<vtk, host_cpus, tasks, faulty, processes, last_call, pc, k, result,
                   serial_job, job, task_queue, result_queue, producer>>

WorkerRender(w) ==
    /\ workers[w].pc = "render"
    /\ workers[w].item \notin faulty
    /\ workers' = [workers EXCEPT ![w].pc = "put", ![w].item = render(@)]
    /\ UNCHANGED <<vtk, host_cpus, tasks, faulty, processes, last_call, pc, k, result,
                   serial_job, job, task_queue, result_queue, producer>>

\* render raises: nothing in _worker catches it, the process dies.
WorkerRenderRaises(w) ==
    /\ workers[w].pc = "render"
    /\ workers[w].item \in faulty
    /\ workers' = [workers EXCEPT ![w].pc = "crashed", ![w].item = PyNone]
    /\ UNCHANGED <<vtk, host_cpus, tasks, faulty, processes, last_call, pc, k, result,
                   serial_job, job, task_queue, result_queue, producer>>

\* The worker folds its result itself, as the class docstring has it, instead
\* of sending it to the caller.
WorkerPut_CallsUpdate(w) ==
    /\ workers[w].pc = "put"
    /\ job' = update(job, workers[w].item)
    /\ workers' = [workers EXCEPT ![w].pc = "get", ![w].item = PyNone]
    /\ UNCHANGED <<vtk, host_cpus, tasks, faulty, processes, last_call, pc, k, result,
                   serial_job, task_queue, result_queue, producer>>

\* The worker puts its result on the result queue twice.
WorkerPut_Twice(w) ==
    /\ workers[w].pc = "put"
    /\ result_queue' = Append(Append(result_queue, workers[w].item), workers[w].item)
    /\ workers' = [workers EXCEPT ![w].pc = "get", ![w].item = PyNone]
    /\ UNCHANGED <<vtk, host_cpus, tasks, faulty, processes, last_call, pc, k, result,
                   serial_job, job, task_queue, producer>>

WorkerPut(w) ==
    /\ workers[w].pc = "put"
    /\ result_queue' = Append(result_queue, workers[w].item)
    /\ workers' = [workers EXCEPT ![w].pc = "get", ![w].item = PyNone]
    /\ UNCHANGED <<vtk, host_cpus, tasks, faulty, processes, last_call, pc, k, result,
                   serial_job, job, task_queue, producer>>

----------------------------------------------------------------------------
\* Specifications

Next ==
    \/ SerialRender
    \/ SerialUpdate
    \/ \E value \in ProcessesArgs : SetProcesses(value)
    \/ RunStart
    \/ StartProducer
    \/ StartWorker
    \/ ConsumeGet
    \/ ConsumeUpdate
    \/ ShutdownWorker
    \/ ProducerPut
    \/ ProducerExit
    \/ \E w \in DOMAIN workers : WorkerSeed(w)
    \/ \E w \in DOMAIN workers : WorkerGet(w)
    \/ \E w \in DOMAIN workers : WorkerRender(w)
    \/ \E w \in DOMAIN workers : WorkerPut(w)

Spec == Init /\ [][Next]_vars

\* Each process is scheduled again and again by the operating system: the
\* caller inside run(), the producer and every worker. Whether the caller
\* assigns processes or calls run() at all is its own choice.
CallerInRun == StartProducer \/ StartWorker \/ ConsumeGet \/ ConsumeUpdate
                 \/ ShutdownWorker

Producer == ProducerPut \/ ProducerExit

Worker(w) ==
    /\ w \in DOMAIN workers
    /\ WorkerSeed(w) \/ WorkerGet(w) \/ WorkerRender(w) \/ WorkerPut(w)

Fairness ==
    /\ WF_vars(CallerInRun)
    /\ WF_vars(Producer)
    /\ \A w \in 1..MaxWorkers : WF_vars(Worker(w))

FairSpec == Spec /\ Fairness

\* A program that uses MulticoreEngine alone: no serial baseline run first.
RunNext ==
    \/ \E value \in ProcessesArgs : SetProcesses(value)
    \/ RunStart
    \/ StartProducer
    \/ StartWorker
    \/ ConsumeGet
    \/ ConsumeUpdate
    \/ ShutdownWorker
    \/ ProducerPut
    \/ ProducerExit
    \/ \E w \in DOMAIN workers : WorkerSeed(w)
    \/ \E w \in DOMAIN workers : WorkerGet(w)
    \/ \E w \in DOMAIN workers : WorkerRender(w)
    \/ \E w \in DOMAIN workers : WorkerPut(w)

\* The caller's tasks may be any Python value, None included.
InitSentinel ==
    /\ InitEngine
    /\ tasks \in SeqsUpTo(TaskValues \cup {PyNone}, MaxTasks)
    /\ faulty = {}
    /\ pc = "configure"

SpecSentinel == InitSentinel /\ [][RunNext]_vars

FairSpecSentinel == SpecSentinel /\ Fairness

\* The caller's render may raise on some task values.
InitFault ==
    /\ InitEngine
    /\ tasks \in SeqsUpTo(TaskValues, MaxTasks)
    /\ faulty \in SUBSET TaskValues
    /\ pc = "configure"

FaultNext == RunNext \/ \E w \in DOMAIN workers : WorkerRenderRaises(w)

SpecFault == InitFault /\ [][FaultNext]_vars

\* The life of one MulticoreEngine from inside its constructor: __init__ has
\* written the placeholder and is about to assign processes; afterwards the
\* caller assigns processes, calls run() any number of times, and may call the
\* virtual methods of a plain RenderEngine.
InitLifecycle ==
    /\ host_cpus \in 1..MaxWorkers
    /\ processes = -1
    /\ last_call = [op |-> "new", arg |-> PyNone, raised |-> "none"]
    /\ pc = "init"
    /\ tasks \in SeqsUpTo(TaskValues, MaxTasks)
    /\ faulty = {}
    /\ k = 0
    /\ result = PyNone
    /\ serial_job = NewJob
    /\ job = NewJob
    /\ task_queue = <<>>
    /\ result_queue = <<>>
    /\ producer = NoProducer
    /\ workers = <<>>
    /\ vtk = NoFile

\* self.processes = processes in __init__: an exception leaves the constructor
\* and no engine comes into being.
Construct(value) ==
    /\ pc = "init"
    /\ processes' = processes_setter(processes, value, host_cpus).processes
    /\ last_call' = [op |-> "init", arg |-> value,
                     raised |-> processes_setter(processes, value, host_cpus).raised]
    /\ pc' = IF processes_setter(processes, value, host_cpus).raised = "none"
             THEN "configure" ELSE "init_failed"
    /\ UNCHANGED <<vtk, host_cpus, tasks, faulty, k, result, serial_job, job,
                   task_queue, result_queue, producer, workers>>

\* run() called again on the same engine: its locals task_queue, result_queue,
\* producer and workers are bound anew, whatever became of the processes of
\* the run before.
RunAgain ==
    /\ pc = "returned"
    /\ task_queue' = <<>>
    /\ result_queue' = <<>>
    /\ producer' = NoProducer
    /\ workers' = <<>>
    /\ job' = NewJob
    /\ last_call' = [op |-> "run", arg |-> PyNone, raised |-> "none"]
    /\ pc' = "start_producer"
    /\ UNCHANGED <<vtk, host_cpus, tasks, faulty, processes, k, result, serial_job>>

\* processes assigned between two calls of run().
SetProcessesAfterRun(value) ==
    /\ pc = "returned"
    /\ processes' = processes_setter(processes, value, host_cpus).processes
    /\ last_call' = [op |-> "set", arg |-> value,
                     raised |-> processes_setter(processes, value, host_cpus).raised]
    /\ UNCHANGED <<vtk, host_cpus, tasks, faulty, pc, k, result, serial_job, job,
                   task_queue, result_queue, producer, workers>>

\* RenderEngine.run and RenderEngine.worker_count on the base class.
BaseRun ==
    /\ pc = "configure"
    /\ last_call' = [op |-> "RenderEngine.run", arg |-> PyNone, raised |-> virtual_method]
    /\ UNCHANGED <<vtk, host_cpus, tasks, faulty, processes, pc, k, result, serial_job,
                   job, task_queue, result_queue, producer, workers>>

BaseWorkerCount ==
    /\ pc = "configure"
    /\ last_call' = [op |-> "RenderEngine.worker_count", arg |-> PyNone,
                     raised |-> virtual_method]
    /\ UNCHANGED <<vtk, host_cpus, tasks, faulty, processes, pc, k, result, serial_job,
                   job, task_queue, result_queue, producer, workers>>

LifecycleNext ==
    \/ \E value \in ProcessesArgs : Construct(value)
    \/ RunNext
    \/ RunAgain
    \/ \E value \in ProcessesArgs : SetProcessesAfterRun(value)
    \/ BaseRun
    \/ BaseWorkerCount

SpecLifecycle == InitLifecycle /\ [][LifecycleNext]_vars

----------------------------------------------------------------------------
\* raysect.primitive.mesh.vtk: VTKHandler._ascii_read_vertices and
\* VTKHandler._ascii_read_triangles, as _load_ascii calls them on the open
\* file f once the four header lines are read.

MaxLines == 3

\* The lines a file may hold after its header.
PointsLine(n) == [kind |-> "POINTS", n |-> n]       \* "POINTS n float"
PolygonsLine(n) == [kind |-> "POLYGONS", n |-> n]   \* "POLYGONS n m"
NumbersLine(c) == [kind |-> "numbers", n |-> c]     \* c numbers; none: a blank line
WordLine == [kind |-> "word", n |-> 0]              \* any other text
EmptyString == [kind |-> "", n |-> 0]               \* what readline() returns at end of file

Declared == 0..2
NumbersPerLine == {0, 3, 4, 6}
Lines ==
    {PointsLine(n) : n \in Declared} \cup {PolygonsLine(n) : n \in Declared}
        \cup {NumbersLine(c) : c \in NumbersPerLine} \cup {WordLine}

\* f.readline(): the next line and the new position; at end of file the empty
\* string, and the position stays.
readline(f) ==
    IF f.pos < Len(f.lines)
    THEN [line |-> f.lines[f.pos + 1], pos |-> f.pos + 1]
    ELSE [line |-> EmptyString, pos |-> f.pos]

\* line.split(): the tokens of the line, each a number or a word.
split(line) ==
    CASE line.kind = "POINTS" -> <<"word", "num", "word">>
      [] line.kind = "POLYGONS" -> <<"word", "num", "num">>
      [] line.kind = "numbers" -> [t \in 1..line.n |-> "num"]
      [] line.kind = "word" -> <<"word">>
      [] OTHER -> <<>>

\* re.match("POINTS\s*([0-9]*)\s*float", line) and
\* re.match("POLYGONS\s*([0-9]*)\s*([0-9]*)", line)
match_points(line) == line.kind = "POINTS"
match_polygons(line) == line.kind = "POLYGONS"

\* The inner loop of _ascii_read_vertices over the tokens of one line, from
\* token j (counted from 0) with i vertices stored so far: the value of i
\* afterwards and what was raised.  float() of a word raises ValueError, a
\* missing token and a vertex beyond num_points raise IndexError.
RECURSIVE read_coordinates(_, _, _, _)
read_coordinates(coordinates, j, i, num_points) ==
    IF j >= Len(coordinates) THEN [i |-> i, raised |-> "none"]
    ELSE IF coordinates[j + 1] = "word" THEN [i |-> i, raised |-> "ValueError"]
    ELSE IF i >= num_points THEN [i |-> i, raised |-> "IndexError"]
    ELSE IF j + 1 >= Len(coordinates) THEN [i |-> i, raised |-> "IndexError"]
    ELSE IF coordinates[j + 2] = "word" THEN [i |-> i, raised |-> "ValueError"]
    ELSE IF j + 2 >= Len(coordinates) THEN [i |-> i, raised |-> "IndexError"]
    ELSE IF coordinates[j + 3] = "word" THEN [i |-> i, raised |-> "ValueError"]
    ELSE read_coordinates(coordinates, j + 3, i + 1, num_points)

\* The body of the for loop of _ascii_read_triangles on one line: what
\* int(triangle_specification[1]), [2] and [3] raise.
read_triangle(triangle_specification) ==
    IF Len(triangle_specification) < 2 THEN "IndexError"
    ELSE IF triangle_specification[2] = "word" THEN "ValueError"
    ELSE IF Len(triangle_specification) < 3 THEN "IndexError"
    ELSE IF triangle_specification[3] = "word" THEN "ValueError"
    ELSE IF Len(triangle_specification) < 4 THEN "IndexError"
    ELSE IF triangle_specification[4] = "word" THEN "ValueError"
    ELSE "none"

\* _ascii_read_vertices, the POINTS line.
ReadPointsHeader ==
    /\ vtk.pc = "read_vertices"
    /\ vtk' = IF match_points(readline(vtk).line)
              THEN [vtk EXCEPT !.pos = readline(vtk).pos,
                               !.num = readline(vtk).line.n,
                               !.i = 0,
                               !.pc = IF 0 < readline(vtk).line.n
                                      THEN "vertex_loop" ELSE "read_triangles"]
              ELSE [vtk EXCEPT !.pos = readline(vtk).pos,
                               !.pc = "raised", !.raised = "RuntimeError"]
    /\ UNCHANGED <<host_cpus, tasks, faulty, processes, last_call, pc, k, result,
                   serial_job, job, task_queue, result_queue, producer, workers>>

\* One round of `while i < num_points`: a line is read and its coordinates
\* are stored.
ReadVertexLine ==
    /\ vtk.pc = "vertex_loop"
    /\ LET read == read_coordinates(split(readline(vtk).line), 0, vtk.i, vtk.num)
       IN  vtk' = [vtk EXCEPT !.pos = readline(vtk).pos,
                              !.i = read.i,
                              !.raised = read.raised,
                              !.pc = IF read.raised /= "none" THEN "raised"
                                     ELSE IF read.i < vtk.num THEN "vertex_loop"
                                     ELSE "read_triangles"]
    /\ UNCHANGED <<host_cpus, tasks, faulty, processes, last_call, pc, k, result,
                   serial_job, job, task_queue, result_queue, producer, workers>>

\* One round of `while not match` in _ascii_read_triangles.
ReadPolygonsHeader ==
    /\ vtk.pc = "read_triangles"
    /\ vtk' = IF match_polygons(readline(vtk).line)
              THEN [vtk EXCEPT !.pos = readline(vtk).pos,
                               !.num = readline(vtk).line.n,
                               !.i = 0,
                               !.pc = IF 0 < readline(vtk).line.n
                                      THEN "triangle_loop" ELSE "returned"]
              ELSE [vtk EXCEPT !.pos = readline(vtk).pos]
    /\ UNCHANGED <<host_cpus, tasks, faulty, processes, last_call, pc, k, result,
                   serial_job, job, task_queue, result_queue, producer, workers>>

\* One round of `for i in range(num_triangles)`.
ReadTriangleLine ==
    /\ vtk.pc = "triangle_loop"
    /\ LET raised == read_triangle(split(readline(vtk).line))
       IN  vtk' = [vtk EXCEPT !.pos = readline(vtk).pos,
                              !.i = IF raised = "none" THEN vtk.i + 1 ELSE vtk.i,
                              !.raised = raised,
                              !.pc = IF raised /= "none" THEN "raised"
                                     ELSE IF vtk.i + 1 < vtk.num THEN "triangle_loop"
                                     ELSE "returned"]
    /\ UNCHANGED <<host_cpus, tasks, faulty, processes, last_call, pc, k, result,
                   serial_job, job, task_queue, result_queue, producer, workers>>

\* _load_ascii is about to call _ascii_read_vertices on a file with any lines
\* after its header; no engine is at work.
InitVtk ==
    /\ vtk \in {[NoFile EXCEPT !.lines = lines, !.pc = "read_vertices"] :
                  lines \in SeqsUpTo(Lines, MaxLines)}
    /\ host_cpus = 1
    /\ processes = 1
    /\ last_call = [op |-> "init", arg |-> PyNone, raised |-> "none"]
    /\ pc = "configure"
    /\ tasks = <<>>
    /\ faulty = {}
    /\ k = 0
    /\ result = PyNone
    /\ serial_job = NewJob
    /\ job = NewJob
    /\ task_queue = <<>>
    /\ result_queue = <<>>
    /\ producer = NoProducer
    /\ workers = <<>>

VtkNext ==
    \/ ReadPointsHeader
    \/ ReadVertexLine
    \/ ReadPolygonsHeader
    \/ ReadTriangleLine

SpecVtk == InitVtk /\ [][VtkNext]_vars

\* The loader is one thread of control that keeps running.
FairSpecVtk == SpecVtk /\ WF_vars(VtkNext)

----------------------------------------------------------------------------
\* Vocabulary of the properties

Range(s) == {s[i] : i \in DOMAIN s}
Count(s, x) == Cardinality({i \in DOMAIN s : s[i] = x})
IsPermutation(s, t) ==
    /\ Len(s) = Len(t)
    /\ \A x \in Range(s) \cup Range(t) : Count(s, x) = Count(t, x)

\* The results of the tasks ts, in the order of ts.
Rendered(ts) == [i \in DOMAIN ts |-> render(ts[i])]

InRun == pc \in {"start_producer", "start_workers", "consume_get", "consume_update",
                 "shutdown", "returned"}
Returned == pc = "returned"

----------------------------------------------------------------------------
\* Properties

\* C1: in a MulticoreEngine run update is never invoked more than T = len(tasks)
\* times, and when run returns it has been invoked exactly T times.
C1_UpdateExactlyT ==
    /\ Len(job.log) <= Len(tasks)
    /\ Returned => Len(job.log) = Len(tasks)

C1_Witness ==
    /\ Returned
    /\ Len(tasks) = 2
    /\ processes \in 1..Len(tasks)
    /\ Len(job.log) = 2

\* C2: the results passed to update never hold a result more often than the
\* tasks yield it, and when run returns they are a permutation of the results
\* of the tasks, with nothing left on the way: no task on the task queue or in
\* a worker's hands and no result on the result queue.
C2_ResultsArePermutation ==
    /\ \A x \in Range(job.log) : Count(job.log, x) <= Count(Rendered(tasks), x)
    /\ Returned =>
         /\ IsPermutation(job.log, Rendered(tasks))
         /\ result_queue = <<>>
         /\ \A i \in DOMAIN task_queue : task_queue[i] = PyNone
         /\ \A w \in DOMAIN workers : workers[w].pc \notin {"render", "put"}

C2_Witness ==
    /\ Returned
    /\ processes = 2
    /\ tasks = <<PyInt(0), PyInt(2)>>
    /\ job.log = <<PyInt(4), PyInt(0)>>

\* C3: when the MulticoreEngine run returns, its Job has accumulated the same
\* total as the Job that was run through SerialEngine over the same tasks,
\* whatever the worker count and the interleaving.
C3_SameTotalAsSerial == Returned => job.total = serial_job.total

C3_Witness ==
    /\ Returned
    /\ processes = 2
    /\ Len(tasks) = 2
    /\ job.log /= serial_job.log
    /\ job.total = 4
    /\ serial_job.total = 4

\* C4: SerialEngine.run renders the tasks in submission order and passes
\* each result to update before it renders the next task: before task k+1 is
\* rendered update has received the results of the first k tasks in order,
\* the one result pending is that of task k+1, and after the run update has
\* received the results of all tasks in submission order.
C4_SerialInOrder ==
    /\ pc = "serial_render" => serial_job.log = Rendered(SubSeq(tasks, 1, k))
    /\ pc = "serial_update" =>
         /\ serial_job.log = Rendered(SubSeq(tasks, 1, k))
         /\ result = render(tasks[k + 1])
    /\ pc \notin {"serial_render", "serial_update"} => serial_job.log = Rendered(tasks)

C4_Witness ==
    /\ pc = "configure"
    /\ tasks = <<PyInt(2), PyInt(0)>>
    /\ serial_job.log = <<PyInt(4), PyInt(0)>>

\* The consumer loop of run() is over.
ConsumerDone == pc \in {"shutdown", "returned"}

\* Every worker the run was to start has exited.
AllWorkersExited ==
    /\ Len(workers) = processes
    /\ \A w \in DOMAIN workers : workers[w].pc = "exited"

\* The producer and every worker the run was to start have exited.
AllExited == producer.pc = "exited" /\ AllWorkersExited

\* C5: under fair scheduling of the caller, the producer and the workers, every
\* MulticoreEngine run that is entered returns, for every task list (the empty
\* one included) and every worker count (more workers than tasks included),
\* and it returns with all T results folded.
C5_RunReturns ==
    (pc = "start_producer") ~> (Returned /\ Len(job.log) = Len(tasks))

\* The shutdown signals the engine has pushed so far: those still on the task
\* queue and those a worker has dequeued.
SignalsOnQueue == Count(task_queue, PyNone)
SignalsTaken == Cardinality({w \in DOMAIN workers : workers[w].pc = "exited"})

\* C6: no shutdown signal is pushed before the T-th update has completed and
\* all workers are started, never more than one per started worker is pushed,
\* exactly one per worker has been pushed when run returns, and under fair
\* scheduling, once the consumer loop is over every worker of the run dequeues
\* a signal and exits; the producer of a run exits as well.
C6_ShutdownReachesEveryWorker ==
    /\ [](SignalsOnQueue + SignalsTaken > 0 =>
            /\ Len(job.log) = Len(tasks)
            /\ ConsumerDone
            /\ Len(workers) = processes)
    /\ [](SignalsOnQueue + SignalsTaken <= Len(workers))
    /\ [](Returned => SignalsOnQueue + SignalsTaken = processes)
    /\ ConsumerDone ~> AllWorkersExited
    /\ (pc = "start_producer") ~> (producer.pc = "exited")

C6_Witness ==
    /\ Returned
    /\ AllExited
    /\ processes = 2
    /\ Len(tasks) = 2
    /\ task_queue = <<>>

\* C7: when MulticoreEngine.run returns, the producer and every worker of
\* the run have exited.
C7_NoProcessOutlivesRun == Returned => AllExited

\* C8: a worker leaves its loop only on a shutdown signal pushed by the engine
\* after the consumer loop, whatever the values of the caller's tasks.
C8_ExitOnlyOnEngineSignal ==
    \A w \in DOMAIN workers :
        workers[w].pc = "exited" => ConsumerDone

\* The tasks that were taken off the task queue, and the outcomes delivered.
TasksTaken == producer.i - (Len(task_queue) - SignalsOnQueue)
TasksInWorkers ==
    Cardinality({w \in DOMAIN workers : workers[w].pc \in {"render", "put"}})
Delivered ==
    Len(result_queue) + (IF pc = "consume_update" THEN 1 ELSE 0) + Len(job.log)

\* C9: every task a worker has taken is either still in that worker's hands or
\* its outcome, a result or a captured fault, has been delivered through the
\* result queue.
C9_EveryOutcomeDelivered == InRun => TasksTaken = TasksInWorkers + Delivered

\* C10: a call of the processes setter with zero or a negative integer raises
\* ValueError and leaves processes, and so worker_count(), as they were.
C10_RejectedSetKeepsProcesses ==
    [][(/\ last_call'.op = "set"
        /\ last_call'.arg.tag = "int"
        /\ last_call'.arg.v <= 0)
       => (/\ last_call'.raised = "ValueError"
           /\ processes' = processes
           /\ worker_count' = worker_count)]_vars

C10_Witness ==
    /\ last_call.op = "set"
    /\ last_call.arg = PyInt(-1)
    /\ last_call.raised = "ValueError"
    /\ processes = 2


\* C11: after a successful assignment of processes, in the constructor or
\* later, worker_count() is the configured value: the host's processor count
\* for None, n for a positive integer n; it always equals processes; and
\* SerialEngine.worker_count() is 1.
C11_WorkerCountIsConfigured ==
    /\ [][(last_call'.op \in {"init", "set"} /\ last_call'.raised = "none") =>
            /\ worker_count' = processes'
            /\ last_call'.arg = PyNone => worker_count' = host_cpus
            /\ last_call'.arg.tag = "int" => worker_count' = last_call'.arg.v]_vars
    /\ [](serial_worker_count = 1)

C11_Witness ==
    /\ last_call.op = "set"
    /\ last_call.arg = PyNone
    /\ host_cpus = 2
    /\ worker_count = 2


C13_BaseMethodsRaise ==
    [][last_call'.op \in {"RenderEngine.run", "RenderEngine.worker_count"} =>
         /\ last_call'.raised = "NotImplementedError"
         /\ UNCHANGED <<vtk, host_cpus, tasks, faulty, processes, pc, k, result,
                        serial_job, job, task_queue, result_queue, producer,
                        workers>>]_vars

C13_Witness ==
    /\ last_call.op = "RenderEngine.run"
    /\ last_call.raised = "NotImplementedError"
    /\ Len(tasks) = 2
    /\ job = NewJob
    /\ producer = NoProducer


\* C14: the producer pushes the tasks once each in submission order and the
\* workers dequeue them in that order: the tasks on the task queue are always
\* tasks[taken+1 .. pushed], followed by the shutdown signals; the task a
\* worker dequeues is always tasks[taken+1], whichever worker it is; and a
\* step of the producer touches no worker, no result and no Job.
C14_TasksDispatchedInOrder ==
    /\ [](/\ producer.i <= Len(tasks)
          /\ TasksTaken \in 0..producer.i
          /\ task_queue = SubSeq(tasks, TasksTaken + 1, producer.i)
                            \o [i \in 1..SignalsOnQueue |-> PyNone])
    /\ [][/\ \A w \in DOMAIN workers :
               (workers[w].pc = "get" /\ workers'[w].pc = "render") =>
                   /\ workers'[w].item = tasks[TasksTaken + 1]
                   /\ TasksTaken' = TasksTaken + 1
          /\ (producer.pc = "put" /\ producer' /= producer) =>
               UNCHANGED <<workers, result_queue, result, job>>]_vars

C14_Witness ==
    /\ tasks = <<PyInt(0), PyInt(2)>>
    /\ Len(workers) = 2
    /\ workers[2].pc = "render"
    /\ workers[2].item = PyInt(0)
    /\ workers[1].pc = "render"
    /\ workers[1].item = PyInt(2)


\* C15: a worker still has the random state it inherited exactly while it is
\* at its random.seed() statement, before its loop; once past it the worker
\* never seeds again, and whoever dequeues from the task queue or renders has
\* re-seeded before.
C15_ReseededBeforeFirstGet ==
    /\ [](\A w \in DOMAIN workers :
            /\ workers[w].pc = "seed" <=> workers[w].rng = "inherited"
            /\ workers[w].pc \in {"get", "render", "put", "exited"} =>
                 workers[w].rng = "reseeded")
    /\ [][/\ \A w \in DOMAIN workers :
               workers[w].pc /= "seed" =>
                   workers'[w].pc /= "seed" /\ workers'[w].rng = workers[w].rng
          /\ Len(task_queue') < Len(task_queue) =>
               \E w \in DOMAIN workers :
                   /\ workers[w].pc = "get"
                   /\ workers[w].rng = "reseeded"
                   /\ workers'[w].pc \in {"render", "exited"}]_vars

C15_Witness ==
    /\ Len(workers) = 2
    /\ workers[1].pc = "seed"
    /\ workers[1].rng = "inherited"
    /\ workers[2].pc = "render"
    /\ workers[2].rng = "reseeded"


\* C16: with a render that does not raise and no task equal to None, whenever
\* a shutdown signal is on the task queue or has been taken by a worker, the
\* producer has pushed all T tasks, none of them is on the task queue any
\* more and none is in a worker's hands: no worker exits while work remains.
C16_NoSignalBeforeWorkDone ==
    (SignalsOnQueue + SignalsTaken > 0) =>
        /\ producer.i = Len(tasks)
        /\ TasksTaken = Len(tasks)
        /\ \A i \in DOMAIN task_queue : task_queue[i] = PyNone
        /\ TasksInWorkers = 0

C16_Witness ==
    /\ Len(tasks) = 2
    /\ SignalsOnQueue = 1
    /\ SignalsTaken = 1
    /\ producer.pc = "put"
    /\ \E w \in DOMAIN workers : workers[w].pc = "get"


\* C17: with processes = 1 the updates of a MulticoreEngine run are, at every
\* moment and in every interleaving, the first updates of the SerialEngine run
\* on the same tasks, in the same order, and at return the two sequences of
\* updates are equal.  With two workers and two tasks an out-of-order run
\* exists: C17_Witness is such a state.
C17_SingleWorkerInOrder ==
    (processes = 1 /\ InRun) =>
        /\ Len(job.log) <= Len(serial_job.log)
        /\ job.log = SubSeq(serial_job.log, 1, Len(job.log))
        /\ Returned => job.log = serial_job.log

C17_Witness ==
    /\ Returned
    /\ processes = 2
    /\ Len(workers) = 2
    /\ tasks = <<PyInt(0), PyInt(2)>>
    /\ serial_job.log = <<PyInt(0), PyInt(4)>>
    /\ job.log = <<PyInt(4), PyInt(0)>>


\* The five stages of a task position, counted.  A worker holds its task from
\* the get() that dequeued it to the put() of its result; a result the caller
\* has dequeued and is about to pass to update counts with the folded ones.
NotYetProduced == Len(tasks) - producer.i
OnTaskQueue == Len(task_queue) - SignalsOnQueue
HeldByWorker(w) == IF workers[w].pc \in {"render", "put"} THEN 1 ELSE 0
OnResultQueue == Len(result_queue)
Folded == Len(job.log) + (IF pc = "consume_update" THEN 1 ELSE 0)

RECURSIVE SumHeld(_)
SumHeld(n) == IF n = 0 THEN 0 ELSE HeldByWorker(n) + SumHeld(n - 1)

\* C18: in every state of a MulticoreEngine run each of the T task positions
\* is in exactly one stage (not yet produced, on the task queue, held by one
\* worker, on the result queue, folded), so the stage counts sum to T, and a
\* worker holds a task exactly while it renders or is about to put.
C18_StagesSumToT ==
    InRun =>
        /\ NotYetProduced + OnTaskQueue + SumHeld(Len(workers))
             + OnResultQueue + Folded = Len(tasks)
        /\ \A w \in DOMAIN workers :
             HeldByWorker(w) = 0 => workers[w].item = PyNone


\* C19: each worker stops reading the task queue after its first shutdown
\* signal, so once all W workers of a run have exited the task queue and the
\* result queue are both empty: no task, no result and no surplus signal is
\* left behind.
C19_QueuesEmptyAfterExit ==
    AllWorkersExited => (task_queue = <<>> /\ result_queue = <<>>)


\* C20: once a MulticoreEngine has been constructed, whatever is assigned to
\* processes afterwards (failed assignments included) and however many times
\* run is called, processes and worker_count() are at least 1; the
\* placeholder -1 is held only inside the constructor or by an engine whose
\* construction raised ValueError; and only an assignment that raises nothing
\* changes processes: no step of run does.
C20_ProcessesAlwaysPositive ==
    /\ [](pc \notin {"init", "init_failed"} => (processes >= 1 /\ worker_count >= 1))
    /\ []((processes = -1) => pc \in {"init", "init_failed"})
    /\ [](pc = "init_failed" => last_call.raised = "ValueError")
    /\ [][processes' /= processes =>
            /\ pc \in {"init", "configure", "returned"}
            /\ last_call'.op \in {"init", "set"}
            /\ last_call'.raised = "none"
            /\ pc' \in {pc, "configure"}]_vars

C20_Witness ==
    /\ Returned
    /\ Len(job.log) = 2
    /\ last_call = [op |-> "set", arg |-> PyInt(0), raised |-> "ValueError"]
    /\ host_cpus = 2
    /\ processes = 1
    /\ worker_count = 1


\* The reader has stopped: it returned its array or raised.
ReaderStopped == vtk.pc \in {"returned", "raised"}

\* None of the lines still to be read is a POLYGONS line.
NoPolygonsAhead ==
    \A n \in (vtk.pos + 1)..Len(vtk.lines) : ~match_polygons(vtk.lines[n])

\* C21: the readers of the mesh loader terminate on every file:
\* _ascii_read_vertices followed by _ascii_read_triangles always ends by
\* returning or raising; in particular, when no line left in the file is a
\* POLYGONS line, _ascii_read_triangles raises RuntimeError, and when the file
\* ends before the declared number of points is read, _ascii_read_vertices
\* stops.
C21_ReadersTerminate ==
    /\ (vtk.pc = "read_vertices") ~> ReaderStopped
    /\ (vtk.pc = "read_triangles" /\ NoPolygonsAhead) ~>
           (vtk.pc = "raised" /\ vtk.raised = "RuntimeError")
    /\ (vtk.pc = "vertex_loop" /\ vtk.pos = Len(vtk.lines)) ~> ReaderStopped

====
